---- MODULE Spec2Model ----
(***************************************************************************)
(* Model of the concurrent per-account collection engine of                *)
(* prometheus-imap-exporter (collector.go): Collector.Collect fans out one *)
(* goroutine per configured account, each goroutine runs                   *)
(* imapMetrics.collect (dial, login, list, status, deferred disconnect),   *)
(* sends its samples on the metric channel, increments the fetch_total     *)
(* counter vector and hands its error to Collect on the errors channel.    *)
(*                                                                         *)
(* The IMAP client library and the network are the environment: every     *)
(* protocol call returns one of the results its signature allows.  Sample *)
(* values of the message gauges are the server's answer for the mailbox.  *)
(* The reader of the metric channel (the registry) is always ready, so a   *)
(* send on it is part of the step that performs it.                        *)
(***************************************************************************)
EXTENDS Integers, Sequences, FiniteSets, TLC

\* ---------------------------------------------------------------- bounds
MaxMailboxes == 2     \* entries one List call streams
MaxScrapes == 2       \* calls of Collect over the process lifetime

\* An entry of "accounts" in the configuration file (internalAccount); an
\* empty filter or pem is a missing one
RawAccount(scheme, host, filter, skip, pem) ==
    [scheme |-> scheme, host |-> host, filter |-> filter,
     SkipTLSValidation |-> skip, Pem |-> pem]

\* The configuration files explored: the accounts in file order (host names
\* are interchangeable, so the first account is on "h1").  They cover no
\* account, one, two on one host and two on two hosts; a missing and a
\* given filter; both schemes; every combination of skip_tls_validation
\* and pem.
Configs ==
    {<<>>,
     <<RawAccount("imaps", "h1", "", FALSE, "")>>,
     <<RawAccount("imaps", "h1", "INBOX*", TRUE, "PEM"),
       RawAccount("imap", "h1", "", FALSE, "")>>,
     <<RawAccount("imaps", "h1", "", FALSE, "PEM"),
       RawAccount("imaps", "h2", "Sent", TRUE, "")>>}
Hosts == {"h1", "h2"}
AccountIds == {1, 2}
UserOf == <<"u1", "u2">>               \* the user of the a-th configured URL
ServerBoxes == <<"INBOX", "Sent", "Drafts", "Trash">>   \* LIST order of a server
Scrapes == {1, 2}     \* Collect calls that can be in progress together
Results == {"ok", "ko"}

VARIABLES
    imapMetrics,   \* Collector.imapMetrics: one record per account
    promCounter,   \* Collector.promCounter: [host, result] -> count
    scrape,        \* per Collect call: "idle" | "running" | "returned"
    received,      \* per Collect call: values received from the errors channel
    logged,        \* per Collect call: errors printed by log.Println
    sess,          \* per Collect call and account: the goroutine's state
    started,       \* number of Collect calls made so far
    crashed        \* the process died of an unrecovered panic

vars == <<imapMetrics, promCounter, scrape, received, logged, sess, started, crashed>>

\* ------------------------------------------------------------ pure helpers
\* errorToPromResult: 1 for a nil error, 0 otherwise
errorToPromResult(err) == IF err = "nil" THEN 1 ELSE 0

\* A slip: the two strings are exchanged
errorToString_Exchanged(err) == IF err = "nil" THEN "ko" ELSE "ok"

\* errorToString: "ok" for a nil error, "ko" otherwise
errorToString(err) == IF err = "nil" THEN "ok" ELSE "ko"

\* What the server answers to STATUS for a mailbox: <<messages, unseen>>
ServerStatus(m) == IF m = "INBOX" THEN <<10, 3>> ELSE <<5, 0>>

\* The three constant metrics of lines 89-91 and 137-142
MailboxOkSample(i, err) ==
    [family |-> "mailbox_ok", labels |-> <<i.host, i.user>>, value |-> errorToPromResult(err)]

TotalSample(i, name, mbox) ==
    [family |-> "total", labels |-> <<i.host, i.user, name>>, value |-> mbox[1]]

UnreadSample(i, name, mbox) ==
    [family |-> "unread_total", labels |-> <<i.host, i.user, name>>, value |-> mbox[2]]

\* res.Collect(ch), line 95, sends the counter itself: the registry reads
\* its value later, so the sample carries the labels only
FetchTotalSample(host, result) ==
    [family |-> "fetch_total", labels |-> <<host, result>>]

\* A nil *tls.Config: the dial then verifies against the system roots
NoTLSConfig == [set |-> FALSE, InsecureSkipVerify |-> FALSE, RootCAs |-> "nil"]

\* A goroutine that Collect has not started.
\*   pc            where the goroutine stands
\*   err           the err of collect (line 108), then of the goroutine (line 87)
\*   conn          the transport: "none" | "open" | "closed"
\*   logoutTried   client.Logout was called
\*   logoutErr     the err of disconnect (line 148), alive until it returns
\*   mailboxesList, listErr        the locals of collect
\*   idx           Status requests issued (iterations of the loop of line 132)
\*   panicking     collect is unwinding a nil dereference
\*   sent          what the goroutine sent on the metric channel, in order
\*   incs          per res.Inc() of the goroutine, what it changed in the
\*                 counter vector: a set of <<host, result, amount>>
\*   fail, failIdx the first protocol call that failed (history)
\*   dialedWith    the dialer the dial went through (history)
\*   pattern       the pattern handed to List (history)
\*   streamed      the entries List has sent on the mailboxes channel (history)
\*   calls         the requests made on the connection, <<request, argument>>,
\*                 in the order they were made (history)
IdleSession ==
    [pc |-> "idle", err |-> "nil", conn |-> "none",
     logoutTried |-> FALSE, logoutErr |-> FALSE,
     mailboxesList |-> <<>>, listErr |-> FALSE, idx |-> 0, panicking |-> FALSE,
     sent |-> <<>>, incs |-> <<>>, fail |-> "none", failIdx |-> 0,
     dialedWith |-> [kind |-> "none", tlsConfig |-> NoTLSConfig],
     pattern |-> "none", streamed |-> <<>>, calls |-> <<>>]

\* The goroutine of line 86, about to call metric.collect
LaunchedSession == [IdleSession EXCEPT !.pc = "dial"]

NumAccounts == Len(imapMetrics)

\* ----------------------------------------------------------- construction
\* NewConfig, lines 64-66: a missing filter becomes "*"
FilterOf(filter) == IF filter = "" THEN "*" ELSE filter

\* A slip: "if" for the "else if" of line 95, so that both fields are set
TLSConfigOf_Both(skip, pem) ==
    IF skip \/ pem # ""
    THEN [set |-> TRUE, InsecureSkipVerify |-> skip,
          RootCAs |-> IF pem # "" THEN pem ELSE "nil"]
    ELSE NoTLSConfig

\* NewConfig, lines 91-103: the tls.Config of an account
TLSConfigOf(skip, pem) ==
    IF skip \/ pem # ""
    THEN [set |-> TRUE, InsecureSkipVerify |-> skip,
          RootCAs |-> IF ~skip /\ pem # "" THEN pem ELSE "nil"]
    ELSE NoTLSConfig

\* NewConfig, lines 58-104: the Account of one entry of the file
NewAccount(raw, user) ==
    [Filter |-> FilterOf(raw.filter),
     TLSConfig |-> TLSConfigOf(raw.SkipTLSValidation, raw.Pem),
     URL |-> [Scheme |-> raw.scheme, Host |-> raw.host, User |-> user]]

\* NewCollector, lines 184-198: imapDialerTLS for imaps, else
\* imapDialerPlainText (which has no tls.Config)
DialerOf(account) ==
    IF account.URL.Scheme = "imaps"
    THEN [kind |-> "tls", tlsConfig |-> account.TLSConfig]
    ELSE [kind |-> "plain", tlsConfig |-> NoTLSConfig]

\* NewCollector, lines 200-207: the imapMetrics of an account (raw and
\* account remember what it was built from)
NewMetric(raw, account) ==
    [host |-> account.URL.Host, user |-> account.URL.User,
     filter |-> account.Filter, dialer |-> DialerOf(account),
     raw |-> raw, account |-> account]

\* ------------------------------------------------------------------- Init
\* NewConfig, then NewCollector: an empty counter vector and one imapMetrics
\* per account
Init ==
    /\ \E c \in Configs :
         imapMetrics = [a \in DOMAIN c |-> NewMetric(c[a], NewAccount(c[a], UserOf[a]))]
    /\ promCounter = [k \in Hosts \X Results |-> 0]
    /\ scrape = [s \in Scrapes |-> "idle"]
    /\ received = [s \in Scrapes |-> 0]
    /\ logged = [s \in Scrapes |-> 0]
    /\ sess = [s \in Scrapes |-> [a \in AccountIds |-> IdleSession]]
    /\ started = 0
    /\ crashed = FALSE

\* --------------------------------------------------------------- actions
SetSess(s, a, r) == sess' = [sess EXCEPT ![s][a] = r]

Running(s, a) == ~crashed /\ scrape[s] = "running" /\ a <= NumAccounts

\* A request goes out on the connection
Called(st, request, arg) == [st EXCEPT !.calls = Append(@, <<request, arg>>)]

\* collect returns (or unwinds) after line 112: the deferred disconnect runs
Leave(st) == [st EXCEPT !.pc = "logout"]

\* Scrapes of a configuration of several accounts are explored one at a
\* time; scrapes of a single account also overlapping.
MayStart(s) ==
    /\ scrape[s] # "running"
    /\ \A t \in Scrapes : t < s => scrape[t] = "running"
    /\ (\E t \in Scrapes : scrape[t] = "running") => NumAccounts <= 1

\* Collect, lines 83-99: make the errors channel and start one goroutine
\* per account.  A call takes the lowest free slot.
Collect(s) ==
    /\ ~crashed
    /\ MayStart(s)
    /\ started < MaxScrapes
    /\ started' = started + 1
    /\ scrape' = [scrape EXCEPT ![s] = "running"]
    /\ received' = [received EXCEPT ![s] = 0]
    /\ logged' = [logged EXCEPT ![s] = 0]
    /\ sess' = [sess EXCEPT ![s] =
                  [a \in AccountIds |-> IF a <= NumAccounts THEN LaunchedSession
                                                            ELSE IdleSession]]
    /\ UNCHANGED <<imapMetrics, promCounter, crashed>>

\* A slip: the return of line 110 is missing
DialResult_NoReturn(st, ok) ==
    IF ok THEN [st EXCEPT !.pc = "login", !.conn = "open"]
          ELSE [st EXCEPT !.pc = "login", !.err = "dial", !.fail = "dial"]

\* collect, lines 108-112: dial; on error return before the defer is set
DialResult(st, ok) ==
    IF ok THEN [st EXCEPT !.pc = "login", !.conn = "open"]
          ELSE [st EXCEPT !.pc = "report", !.err = "dial", !.fail = "dial"]

\* collect, line 108, and dial, lines 154-166: the dial goes through i.dialer
UseDialer(i, st) == [st EXCEPT !.dialedWith = i.dialer]

Dial(s, a) ==
    /\ Running(s, a)
    /\ sess[s][a].pc = "dial"
    /\ \E ok \in BOOLEAN :
         SetSess(s, a, DialResult(Called(UseDialer(imapMetrics[a], sess[s][a]),
                                         "dial", imapMetrics[a].host), ok))
    /\ UNCHANGED <<imapMetrics, promCounter, scrape, received, logged, started, crashed>>

\* collect, lines 114-116: login; on error return through the deferred disconnect
LoginResult(st, ok) ==
    IF ok THEN [st EXCEPT !.pc = "list"]
          ELSE Leave([st EXCEPT !.err = "login", !.fail = "login"])

\* A slip: every account is listed with the default pattern
ListCall_Star(i, st) ==
    IF st.pc = "list" THEN Called([st EXCEPT !.pattern = "*"], "list", "*") ELSE st

\* collect, lines 118-122: once logged in, start List("", i.filter, mailboxes)
ListCall(i, st) ==
    IF st.pc = "list"
    THEN Called([st EXCEPT !.pattern = i.filter], "list", i.filter)
    ELSE st

Login(s, a) ==
    /\ Running(s, a)
    /\ sess[s][a].pc = "login"
    /\ \E ok \in BOOLEAN :
         SetSess(s, a, ListCall(imapMetrics[a],
                                LoginResult(Called(sess[s][a], "login",
                                                   imapMetrics[a].user), ok)))
    /\ UNCHANGED <<imapMetrics, promCounter, scrape, received, logged, started, crashed>>

\* A slip: the list is started anew at each entry
Received_KeepLast(list, m) == <<m>>

\* collect, lines 124-127: the body of the range loop over the channel
Received(list, m) == Append(list, m)

\* collect, lines 120-127: the List goroutine streams the server's next entry
\* on the unbuffered mailboxes channel and the range loop appends it
ListEntry(s, a) ==
    /\ Running(s, a)
    /\ sess[s][a].pc = "list"
    /\ Len(sess[s][a].streamed) < MaxMailboxes
    /\ LET m == ServerBoxes[Len(sess[s][a].streamed) + 1]
       IN SetSess(s, a, [sess[s][a] EXCEPT
                           !.streamed = Append(@, m),
                           !.mailboxesList = Received(@, m)])
    /\ UNCHANGED <<imapMetrics, promCounter, scrape, received, logged, started, crashed>>

\* collect, lines 120-127: List returns (closing the mailboxes channel, which
\* ends the range loop); its result waits on the done channel
ListReturn(s, a) ==
    /\ Running(s, a)
    /\ sess[s][a].pc = "list"
    /\ \E ok \in BOOLEAN :
         SetSess(s, a, [sess[s][a] EXCEPT !.pc = "listDone", !.listErr = ~ok])
    /\ UNCHANGED <<imapMetrics, promCounter, scrape, received, logged, started, crashed>>

\* A slip: the result received from the done channel is not tested
ListJoinResult_IgnoreErr(st) ==
    IF st.listErr /\ st.mailboxesList = <<>>
    THEN Leave([st EXCEPT !.err = "list", !.fail = "list"])
    ELSE IF st.mailboxesList = <<>>
         THEN Leave(st)
         ELSE [st EXCEPT !.pc = "status",
                         !.fail = IF st.listErr THEN "list" ELSE @]

\* A slip: an empty list is taken for a failed enumeration
ListJoinResult_EmptyIsError(st) ==
    IF st.listErr
    THEN Leave([st EXCEPT !.err = "list", !.fail = "list"])
    ELSE IF st.mailboxesList = <<>>
         THEN Leave([st EXCEPT !.err = "list"])
         ELSE [st EXCEPT !.pc = "status"]

\* collect, lines 128-132: receive the result of List from the done channel;
\* on error return, else enter the status loop (which an empty list ends)
ListJoinResult(st) ==
    IF st.listErr
    THEN Leave([st EXCEPT !.err = "list", !.fail = "list"])
    ELSE IF st.mailboxesList = <<>> THEN Leave(st) ELSE [st EXCEPT !.pc = "status"]

ListJoin(s, a) ==
    /\ Running(s, a)
    /\ sess[s][a].pc = "listDone"
    /\ SetSess(s, a, ListJoinResult(sess[s][a]))
    /\ UNCHANGED <<imapMetrics, promCounter, scrape, received, logged, started, crashed>>

\* A slip: the loop runs over the list from its end
NextMailbox_Backwards(st) == st.mailboxesList[Len(st.mailboxesList) - st.idx]

\* collect, line 132: the range loop visits mailboxesList front to back
NextMailbox(st) == st.mailboxesList[st.idx + 1]

\* One iteration of the loop of lines 132-143.  Status returns
\*   "ok"     a status and a nil error,
\*   "errBox" a (zero-valued) status and an error,
\*   "errNil" a nil status and an error.
\* The err of line 133 is a new variable of the loop body: the error is
\* wrapped into it (line 135) and dropped; collect's own err stays nil.
\* Line 135 reads mbox.Name, which panics when mbox is nil; the panic runs
\* the deferred disconnect and then kills the process.
StatusResult(i, st, r) ==
    LET j == st.idx + 1
        name == NextMailbox(st)
        mbox == IF r = "ok" THEN ServerStatus(name) ELSE <<0, 0>>
        noted == IF r # "ok" /\ st.fail = "none"
                 THEN [st EXCEPT !.idx = j, !.fail = "status", !.failIdx = j]
                 ELSE [st EXCEPT !.idx = j]
        emitted == [noted EXCEPT !.sent = @ \o <<TotalSample(i, name, mbox),
                                                 UnreadSample(i, name, mbox)>>]
    IN IF r = "errNil"
       THEN Leave([noted EXCEPT !.panicking = TRUE])
       ELSE IF j = Len(st.mailboxesList) THEN Leave(emitted) ELSE emitted

Status(s, a) ==
    /\ Running(s, a)
    /\ sess[s][a].pc = "status"
    /\ \E r \in {"ok", "errBox", "errNil"} :
         SetSess(s, a, StatusResult(imapMetrics[a],
                                    Called(sess[s][a], "status", NextMailbox(sess[s][a])),
                                    r))
    /\ UNCHANGED <<imapMetrics, promCounter, scrape, received, logged, started, crashed>>

\* A slip: the error of Logout becomes the error of a session that had none
LogoutResult_ReturnsErr(st, ok) ==
    [st EXCEPT !.pc = "terminate", !.logoutTried = TRUE, !.logoutErr = ~ok,
               !.err = IF ~ok /\ @ = "nil" THEN "logout" ELSE @]

\* disconnect, lines 148-150: the logout request; its error is only logged
LogoutResult(st, ok) ==
    [st EXCEPT !.pc = "terminate", !.logoutTried = TRUE, !.logoutErr = ~ok]

Logout(s, a) ==
    /\ Running(s, a)
    /\ sess[s][a].pc = "logout"
    /\ \E ok \in BOOLEAN : SetSess(s, a, LogoutResult(Called(sess[s][a], "logout", ""), ok))
    /\ UNCHANGED <<imapMetrics, promCounter, scrape, received, logged, started, crashed>>

\* A slip: disconnect returns after a failed logout, before Terminate
TerminateResult_SkipAfterFailedLogout(st) ==
    [st EXCEPT !.conn = IF st.logoutErr THEN @ ELSE "closed", !.logoutErr = FALSE,
               !.pc = IF st.panicking THEN "panicked" ELSE "report"]

\* disconnect, line 151: close the transport; collect then returns err, or,
\* when it is unwinding a panic, the goroutine dies and the process with it
TerminateResult(st) ==
    [st EXCEPT !.conn = "closed", !.logoutErr = FALSE,
               !.pc = IF st.panicking THEN "panicked" ELSE "report"]

Terminate(s, a) ==
    /\ Running(s, a)
    /\ sess[s][a].pc = "terminate"
    /\ SetSess(s, a, TerminateResult(Called(sess[s][a], "terminate", "")))
    /\ crashed' = sess[s][a].panicking
    /\ UNCHANGED <<imapMetrics, promCounter, scrape, received, logged, started>>

\* A slip: the mailbox_ok sample is sent only for a session without error
ReportResult_SkipOkOnError(i, st, changed) ==
    [st EXCEPT !.pc = "send",
               !.incs = Append(@, changed),
               !.sent = @ \o (IF st.err = "nil" THEN <<MailboxOkSample(i, st.err)>> ELSE <<>>)
                          \o <<FetchTotalSample(i.host, errorToString(st.err))>>]

\* Collect, lines 89-95: send the mailbox_ok sample, increment the counter
\* of (host, result) and send the counter
ReportResult(i, st, changed) ==
    [st EXCEPT !.pc = "send",
               !.incs = Append(@, changed),
               !.sent = @ \o <<MailboxOkSample(i, st.err),
                               FetchTotalSample(i.host, errorToString(st.err))>>]

\* A slip: the two results of a host are kept as a gauge pair would be, the
\* other result cleared
Inc_ClearOther(counter, host, result) ==
    [counter EXCEPT ![<<host, result>>] = @ + 1,
                    ![<<host, IF result = "ok" THEN "ko" ELSE "ok">>] = 0]

\* A slip: the child of a key is made anew at each call
Inc_Restart(counter, host, result) == [counter EXCEPT ![<<host, result>>] = 1]

\* WithLabelValues(host, result).Inc(): an atomic add of 1 to one child
Inc(counter, host, result) == [counter EXCEPT ![<<host, result>>] = @ + 1]

Changes(old, new) ==
    {<<k[1], k[2], new[k] - old[k]>> : k \in {x \in DOMAIN old : new[x] # old[x]}}

Report(s, a) ==
    /\ Running(s, a)
    /\ sess[s][a].pc = "report"
    /\ promCounter' = Inc(promCounter, imapMetrics[a].host, errorToString(sess[s][a].err))
    /\ SetSess(s, a, ReportResult(imapMetrics[a], sess[s][a],
                                  Changes(promCounter, promCounter')))
    /\ UNCHANGED <<imapMetrics, scrape, received, logged, started, crashed>>

\* Collect, lines 97 and 100-104: the goroutine's send on the unbuffered
\* errors channel meets one receive of Collect's loop, which logs the error
SendErr(s, a) ==
    /\ Running(s, a)
    /\ sess[s][a].pc = "send"
    /\ received[s] < NumAccounts
    /\ received' = [received EXCEPT ![s] = @ + 1]
    /\ logged' = [logged EXCEPT ![s] = IF sess[s][a].err = "nil" THEN @ ELSE @ + 1]
    /\ SetSess(s, a, [sess[s][a] EXCEPT !.pc = "done"])
    /\ UNCHANGED <<imapMetrics, promCounter, scrape, started, crashed>>

\* A slip: the receive loop runs one time too few
Joined_OneShort(s) == received[s] >= NumAccounts - 1

\* Collect, lines 100-105: the receive loop has run once per account
Joined(s) == received[s] = NumAccounts

CollectReturn(s) ==
    /\ ~crashed
    /\ scrape[s] = "running"
    /\ Joined(s)
    /\ scrape' = [scrape EXCEPT ![s] = "returned"]
    /\ UNCHANGED <<imapMetrics, promCounter, received, logged, sess, started, crashed>>

\* The server stops answering: Login, List and Status carry no deadline
\* (the configured timeout bounds only the dial, lines 155-157)
Hang(s, a) ==
    /\ Running(s, a)
    /\ sess[s][a].pc \in {"login", "list", "status"}
    /\ SetSess(s, a, [sess[s][a] EXCEPT !.pc = "hung"])
    /\ UNCHANGED <<imapMetrics, promCounter, scrape, received, logged, started, crashed>>

SessionStep(s, a) ==
    \/ Dial(s, a) \/ Login(s, a)
    \/ ListEntry(s, a) \/ ListReturn(s, a) \/ ListJoin(s, a)
    \/ Status(s, a)
    \/ Logout(s, a) \/ Terminate(s, a)
    \/ Report(s, a) \/ SendErr(s, a)

Next ==
    \/ \E s \in Scrapes : Collect(s)
    \/ \E s \in Scrapes : CollectReturn(s)
    \/ \E s \in Scrapes, a \in AccountIds : SessionStep(s, a)
    \/ \E s \in Scrapes, a \in AccountIds : Hang(s, a)

Spec == Init /\ [][Next]_vars

\* The same behaviours, with the scheduling the Go runtime gives: a
\* goroutine that can run does run, and Collect's receive loop is one.
\* Scrapes arrive, and servers stop answering, when they please.
Fairness ==
    /\ \A s \in Scrapes, a \in AccountIds : WF_vars(SessionStep(s, a))
    /\ \A s \in Scrapes : WF_vars(CollectReturn(s))

SpecFair == Init /\ [][Next]_vars /\ Fairness

\* ------------------------------------------------------ reading a session
IsMailboxSample(x) == x.family \in {"total", "unread_total"}
IsOkSample(x) == x.family = "mailbox_ok"

MailboxSamples(st) == SelectSeq(st.sent, IsMailboxSample)
OkSamples(st) == SelectSeq(st.sent, IsOkSample)

\* The goroutine has passed line 95: only the hand-over of err is left
Reported(st) == st.pc \in {"send", "done"}

\* collect was left, by a return or by a panic
LeftCollect(st) == st.pc \in {"report", "send", "done", "panicked"}

\* The family and labels of every sample of a session, in sending order
SentKeys(st) == [k \in DOMAIN st.sent |-> <<st.sent[k].family, st.sent[k].labels>>]

\* The family and labels of the samples of the first n mailboxes of a list
RECURSIVE MailboxKeys(_, _, _)
MailboxKeys(i, list, n) ==
    IF n = 0 THEN <<>>
    ELSE MailboxKeys(i, list, n - 1)
           \o << <<"total", <<i.host, i.user, list[n]>> >>,
                 <<"unread_total", <<i.host, i.user, list[n]>> >> >>

\* A failure outcome: mailbox_ok is 0 and the counter of (host, ko) took the
\* one increment
FailureOutcome(i, st) ==
    /\ st.err # "nil"
    /\ OkSamples(st) =
         <<[family |-> "mailbox_ok", labels |-> <<i.host, i.user>>, value |-> 0]>>
    /\ st.incs = << {<<i.host, "ko", 1>>} >>

\* A success outcome: mailbox_ok is 1 and the counter of (host, ok) took the
\* one increment
SuccessOutcome(i, st) ==
    /\ st.err = "nil"
    /\ OkSamples(st) =
         <<[family |-> "mailbox_ok", labels |-> <<i.host, i.user>>, value |-> 1]>>
    /\ st.incs = << {<<i.host, "ok", 1>>} >>

\* ----------------------------------------------------------------- claims

C2_DialFailureIsolated ==
    \A s \in Scrapes : \A a \in DOMAIN imapMetrics :
        LET st == sess[s][a]
        IN st.fail = "dial" =>
             /\ MailboxSamples(st) = <<>>
             /\ Reported(st) => FailureOutcome(imapMetrics[a], st)
             /\ \A b \in DOMAIN imapMetrics \ {a} :
                  LET sb == sess[s][b]
                      ib == imapMetrics[b]
                  IN Reported(sb) =>
                       /\ SentKeys(sb) =
                            MailboxKeys(ib, sb.mailboxesList, sb.idx)
                              \o << <<"mailbox_ok", <<ib.host, ib.user>> >>,
                                    <<"fetch_total", <<ib.host, errorToString(sb.err)>> >> >>
                       /\ OkSamples(sb) = <<MailboxOkSample(ib, sb.err)>>
                       /\ sb.fail = "none" =>
                            /\ SuccessOutcome(ib, sb)
                            /\ sb.idx = Len(sb.mailboxesList)

\* Account A failed to dial and reported; account B, on the same host, read
\* two mailboxes and reported success
C2_Witness ==
    \E s \in Scrapes : \E a, b \in DOMAIN imapMetrics :
        /\ a # b
        /\ imapMetrics[a].host = imapMetrics[b].host
        /\ sess[s][a].fail = "dial" /\ sess[s][a].pc = "done"
        /\ sess[s][b].fail = "none" /\ sess[s][b].pc = "done"
        /\ Len(MailboxSamples(sess[s][b])) = 4

\* C3: when the status fetch of the j-th mailbox fails, no total or
\* unread_total sample is sent for the j-th mailbox or a later one, and the
\* account's outcome is the failure outcome.
C3_StatusFailureFailsAccount ==
    \A s \in Scrapes : \A a \in DOMAIN imapMetrics :
        LET st == sess[s][a]
        IN st.fail = "status" =>
             /\ Len(MailboxSamples(st)) <= 2 * (st.failIdx - 1)
             /\ Reported(st) => FailureOutcome(imapMetrics[a], st)

\* C4: an account whose login failed, or whose List returned an error (also
\* after entries were streamed), issues no Status request and sends no total
\* or unread_total sample, and its outcome is the failure outcome.
C4_NoStatusAfterLoginOrListFailure ==
    \A s \in Scrapes : \A a \in DOMAIN imapMetrics :
        LET st == sess[s][a]
        IN st.fail \in {"login", "list"} =>
             /\ st.idx = 0
             /\ MailboxSamples(st) = <<>>
             /\ st.pc # "status"
             /\ Reported(st) => FailureOutcome(imapMetrics[a], st)

\* A session whose List streamed an entry and then returned an error has
\* delivered its outcome
C4_Witness ==
    \E s \in Scrapes : \E a \in DOMAIN imapMetrics :
        /\ sess[s][a].fail = "list"
        /\ sess[s][a].mailboxesList # <<>>
        /\ sess[s][a].pc = "done"

\* C5: when dial, login and List succeed and List streamed no mailbox, the
\* outcome is the success outcome and the only samples sent are mailbox_ok
\* and the counter.
C5_EmptyListSucceeds ==
    \A s \in Scrapes : \A a \in DOMAIN imapMetrics :
        LET st == sess[s][a]
            i == imapMetrics[a]
        IN (LeftCollect(st) /\ st.fail = "none" /\ st.mailboxesList = <<>>) =>
             /\ st.err = "nil"
             /\ st.panicking = FALSE
             /\ MailboxSamples(st) = <<>>
             /\ Reported(st) =>
                  /\ SuccessOutcome(i, st)
                  /\ Len(st.sent) = 2
                  /\ st.sent[2] = [family |-> "fetch_total", labels |-> <<i.host, "ok">>]

\* A session that listed no mailbox has delivered its outcome
C5_Witness ==
    \E s \in Scrapes : \E a \in DOMAIN imapMetrics :
        /\ sess[s][a].pc = "done"
        /\ sess[s][a].conn = "closed"
        /\ sess[s][a].fail = "none"
        /\ sess[s][a].mailboxesList = <<>>

\* C6: Collect returns only after every goroutine it started has finished:
\* when it has returned, each has sent its mailbox_ok sample, made its
\* increment and handed over its error, and from then on no goroutine of
\* that call sends or changes anything.
C6_FullJoin ==
    /\ [](\A s \in Scrapes : scrape[s] = "returned" =>
             \A a \in DOMAIN imapMetrics :
                 /\ sess[s][a].pc = "done"
                 /\ Len(OkSamples(sess[s][a])) = 1
                 /\ Len(sess[s][a].incs) = 1)
    /\ [][\A s \in Scrapes : (scrape[s] = "returned" /\ scrape'[s] = "returned") =>
             sess'[s] = sess[s]]_vars

\* A scrape of two accounts has returned
C6_Witness ==
    \E s \in Scrapes :
        /\ scrape[s] = "returned"
        /\ NumAccounts = 2
        /\ \A a \in DOMAIN imapMetrics : sess[s][a].pc = "done"

\* C7 as stated: on every exit path of a session, the connect failure
\* included, a logout was attempted and the transport was closed before the
\* session left collect.
C7_ClosingOnEveryExit ==
    \A s \in Scrapes : \A a \in DOMAIN imapMetrics :
        LeftCollect(sess[s][a]) =>
            sess[s][a].logoutTried /\ sess[s][a].conn = "closed"

\* C7 amended: on every exit path of a session whose dial succeeded
\* (success, login failure, List failure, status failure, panic) a logout was
\* attempted and then the transport was closed, whatever the logout
\* returned, before the session left collect; the transport is never closed
\* before the logout attempt; a session whose dial failed has no connection
\* and attempts neither.
C7_ClosingAfterDial ==
    \A s \in Scrapes : \A a \in DOMAIN imapMetrics :
        LET st == sess[s][a]
        IN /\ (LeftCollect(st) /\ st.fail # "dial") =>
                 st.logoutTried /\ st.conn = "closed"
           /\ st.conn = "closed" => st.logoutTried
           /\ st.pc = "terminate" => st.logoutTried /\ st.conn = "open"
           /\ st.fail = "dial" => ~st.logoutTried /\ st.conn = "none"

\* A session whose login failed is done with its transport closed, and one
\* whose dial failed is done without a connection
C7_Witness ==
    \E s \in Scrapes : \E a, b \in DOMAIN imapMetrics :
        /\ sess[s][a].pc = "done" /\ sess[s][a].fail = "login"
        /\ sess[s][a].conn = "closed"
        /\ sess[s][b].pc = "done" /\ sess[s][b].fail = "dial"

\* C8: no step decreases the counter of any (host, result).
C8_TallyNeverDecreases ==
    [][\A k \in DOMAIN promCounter : promCounter'[k] >= promCounter[k]]_vars

\* Two scrapes have counted on the same key
C8_Witness ==
    /\ started = 2
    /\ \E k \in DOMAIN promCounter : promCounter[k] >= 2

\* C9: every failure, at whatever stage, becomes the failure outcome of its
\* account, and no failure kills the process.
C9_FailuresBecomeOutcomes ==
    /\ ~crashed
    /\ \A s \in Scrapes : \A a \in DOMAIN imapMetrics :
          (sess[s][a].fail # "none" /\ Reported(sess[s][a])) =>
              FailureOutcome(imapMetrics[a], sess[s][a])

\* C10: while one session of a scrape is blocked for ever in a protocol
\* exchange, every other session of the scrape that was started and is not
\* blocked itself runs to its end (its error handed to Collect).
C10_OthersRunToCompletion ==
    \A s \in Scrapes : \A a, b \in AccountIds :
        (a # b /\ a <= NumAccounts /\ b <= NumAccounts
           /\ sess[s][a].pc = "hung" /\ sess[s][b].pc \notin {"idle", "hung"})
        ~> (sess[s][b].pc \in {"done", "hung"})

\* ------------------------------------------------------------------ C11
\* C11: an account configured without a filter (or with an empty one) is
\* listed with the pattern "*", an account with a filter is listed with
\* exactly that filter: in every scrape, the pattern handed to List is the
\* configured filter, or "*" when there is none, and no step changes the
\* filter of an account.
C11_PatternIsFilterOrStar ==
    /\ [](\A a \in DOMAIN imapMetrics :
            LET i == imapMetrics[a]
                expected == IF i.raw.filter = "" THEN "*" ELSE i.raw.filter
            IN /\ i.raw.filter = "" => i.filter = "*"
               /\ i.raw.filter # "" => i.filter = i.raw.filter
               /\ \A s \in Scrapes :
                    LET st == sess[s][a]
                    IN /\ st.pattern \in {"none", expected}
                       /\ (st.pc \in {"list", "listDone", "status"}
                             \/ st.mailboxesList # <<>>) =>
                            st.pattern = expected)
    /\ [][\A a \in DOMAIN imapMetrics :
            imapMetrics'[a].filter = imapMetrics[a].filter]_vars

\* In the second scrape, an account with a filter and an account without
\* one have both been listed, the first with its filter and the second
\* with "*"
C11_Witness ==
    /\ started = 2
    /\ \E s \in Scrapes : \E a, b \in DOMAIN imapMetrics :
          /\ imapMetrics[a].raw.filter = "INBOX*"
          /\ sess[s][a].pattern = "INBOX*" /\ sess[s][a].mailboxesList # <<>>
          /\ imapMetrics[b].raw.filter = ""
          /\ sess[s][b].pattern = "*" /\ sess[s][b].pc = "done"

\* ------------------------------------------------------------------ C12
\* The requests of a session, without their arguments
Requests(st) == [k \in DOMAIN st.calls |-> st.calls[k][1]]

IsStatusCall(c) == c[1] = "status"

\* The mailboxes the status requests of a session named, in request order
StatusNames(st) ==
    LET statusCalls == SelectSeq(st.calls, IsStatusCall)
    IN [k \in DOMAIN statusCalls |-> statusCalls[k][2]]

\* The requests that may come directly before a request
MayPrecede(request) ==
    CASE request = "dial" -> {}
      [] request = "login" -> {"dial"}
      [] request = "list" -> {"login"}
      [] request = "status" -> {"list", "status"}
      [] request = "logout" -> {"login", "list", "status"}
      [] request = "terminate" -> {"logout"}

\* C12: the requests of a session are made in the order dial, login, list,
\* status requests, logout, close of the transport, none out of its place
\* (so each but status at most once); the status requests name the listed
\* mailboxes one after another in the order of the list, each once, and
\* all of them when the session got through the loop; the pairs of total
\* and unread_total samples are sent in that same order.  It holds at every
\* moment of every session, finished or not.
C12_StagesInOrder ==
    [](\A s \in Scrapes : \A a \in DOMAIN imapMetrics :
        LET st == sess[s][a]
            i == imapMetrics[a]
            pairs == IF st.panicking THEN st.idx - 1 ELSE st.idx
        IN /\ \A k \in DOMAIN st.calls :
                /\ k = 1 => st.calls[k][1] = "dial"
                /\ k > 1 => st.calls[k - 1][1] \in MayPrecede(st.calls[k][1])
                /\ st.calls[k][1] = "status" <=> k \in 4 .. (3 + st.idx)
                /\ st.calls[k][1] = "status" =>
                     st.calls[k][2] = st.mailboxesList[k - 3]
           /\ st.idx <= Len(st.mailboxesList)
           /\ Len(st.calls) >= (IF st.idx > 0 THEN 3 + st.idx ELSE 0)
           /\ (st.idx < Len(st.mailboxesList) /\ st.fail \in {"none", "status"}
                 /\ ~st.panicking) =>
                st.pc \in {"list", "listDone", "status", "hung"}
           /\ \A k \in DOMAIN st.sent :
                /\ IsMailboxSample(st.sent[k]) <=> k <= 2 * pairs
                /\ k <= 2 * pairs =>
                     /\ st.sent[k].family =
                          (IF k % 2 = 1 THEN "total" ELSE "unread_total")
                     /\ st.sent[k].labels =
                          <<i.host, i.user, st.mailboxesList[(k + 1) \div 2]>>
           /\ Len(st.sent) >= 2 * pairs)

\* A session went through all six stages and all the mailboxes of its list
C12_Witness ==
    \E s \in Scrapes : \E a \in DOMAIN imapMetrics :
        /\ sess[s][a].pc = "done"
        /\ Requests(sess[s][a]) =
             <<"dial", "login", "list", "status", "status", "logout", "terminate">>
        /\ StatusNames(sess[s][a]) = <<"INBOX", "Sent">>
        /\ Len(MailboxSamples(sess[s][a])) = 4

\* ------------------------------------------------------------------ C13
\* C13: the logout changes nothing of a session's outcome, whether it
\* succeeds or fails: neither the logout nor the close that follows it
\* changes the session's error, the samples it has sent or its increment,
\* the transport is closed after a failed logout as after a good one, and
\* the mailbox_ok value and counter key of a reported session are those of
\* the error it had before the logout.
C13_LogoutFailureIgnored ==
    /\ [](\A s \in Scrapes : \A a \in DOMAIN imapMetrics :
            LET st == sess[s][a]
            IN /\ st.pc = "terminate" => st.conn = "open"
               /\ Reported(st) =>
                    IF st.err = "nil" THEN SuccessOutcome(imapMetrics[a], st)
                                      ELSE FailureOutcome(imapMetrics[a], st))
    /\ [][\A s \in Scrapes : \A a \in DOMAIN imapMetrics :
            LET st == sess[s][a]
                nx == sess'[s][a]
            IN (st.pc \in {"logout", "terminate"} /\ nx # st) =>
                 /\ nx.err = st.err
                 /\ nx.sent = st.sent
                 /\ nx.incs = st.incs
                 /\ st.pc = "logout" => nx.pc = "terminate"
                 /\ st.pc = "terminate" =>
                      nx.conn = "closed" /\ nx.pc \in {"report", "panicked"}]_vars

\* The logout of a session that got through all its stages without error
\* has failed, and its transport is still to be closed
C13_Witness ==
    \E s \in Scrapes : \E a \in DOMAIN imapMetrics :
        /\ sess[s][a].pc = "terminate"
        /\ sess[s][a].logoutErr
        /\ sess[s][a].err = "nil"
        /\ sess[s][a].fail = "none"
        /\ sess[s][a].idx = 2

\* ------------------------------------------------------------------ C14
\* No protocol exchange of the scrape is blocked for ever
NoneHung(s) == \A a \in DOMAIN imapMetrics : sess[s][a].pc # "hung"

\* C14: with goroutines scheduled fairly, a Collect call whose protocol
\* exchanges all return does return, whatever the number of accounts and
\* whatever the outcomes of their sessions.
C14_CollectReturns ==
    \A s \in Scrapes :
        (scrape[s] = "running")
        ~> (scrape[s] = "returned" \/ ~NoneHung(s))

\* ------------------------------------------------------------------ C15
\* C15: while List runs and until its result is received from the done
\* channel, the session makes no Status request and leaves the stage only
\* by that receive; the list collected is then, and at every moment
\* before, the sequence of the entries streamed, in streaming order, none
\* lost and none twice, and it does not change afterwards.
C15_ListJoinedBeforeStatus ==
    /\ [](\A s \in Scrapes : \A a \in DOMAIN imapMetrics :
            LET st == sess[s][a]
            IN /\ st.mailboxesList = st.streamed
               /\ st.pc \in {"list", "listDone"} =>
                    st.idx = 0 /\ StatusNames(st) = <<>> /\ st.sent = <<>>
               /\ st.listErr => StatusNames(st) = <<>>)
    /\ [][\A s \in Scrapes : \A a \in DOMAIN imapMetrics :
            LET st == sess[s][a]
                nx == sess'[s][a]
            IN /\ (st.pc = "list" /\ nx # st) =>
                    nx.pc \in {"list", "listDone", "hung"} /\ nx.calls = st.calls
               /\ (st.pc = "listDone" /\ nx # st) =>
                    /\ nx.calls = st.calls
                    /\ nx.mailboxesList = st.mailboxesList
                    /\ nx.pc \in {"status", "logout"}
               /\ (st.pc \notin {"idle", "dial", "login", "list"} /\ nx.pc # "dial") =>
                    nx.mailboxesList = st.mailboxesList /\ nx.streamed = st.streamed
               /\ Len(StatusNames(nx)) > Len(StatusNames(st)) => st.pc = "status"]_vars

\* List streamed two entries and returned without error, and the session
\* has gone on to the status of the first
C15_Witness ==
    \E s \in Scrapes : \E a \in DOMAIN imapMetrics :
        /\ sess[s][a].pc = "status"
        /\ sess[s][a].idx = 1
        /\ ~sess[s][a].listErr
        /\ sess[s][a].streamed = <<"INBOX", "Sent">>
        /\ sess[s][a].mailboxesList = <<"INBOX", "Sent">>

\* ------------------------------------------------------------------ C16
\* The accounts configured on a host
AccountsOn(h) == {a \in DOMAIN imapMetrics : imapMetrics[a].host = h}

\* The sessions of a scrape that have run to their end
CompletedOn(s, h) == {a \in AccountsOn(h) : sess[s][a].pc = "done"}

\* No session is in progress: every Collect call made has returned
Quiescent == \A s \in Scrapes : scrape[s] # "running"

\* C16: no increment is lost: when no session is in progress, the counters
\* of (host, ok) and (host, ko) add up, for every host, to the number of
\* sessions completed on that host since the start: every Collect call
\* that has returned completed one session per account of the host.
C16_NoIncrementLost ==
    \A h \in Hosts :
        /\ Quiescent =>
             promCounter[<<h, "ok">>] + promCounter[<<h, "ko">>]
               = started * Cardinality(AccountsOn(h))
        /\ \A s \in Scrapes :
             scrape[s] = "returned" => CompletedOn(s, h) = AccountsOn(h)

\* Two Collect calls have returned in a configuration of two accounts on
\* one host, with sessions of both results
C16_Witness ==
    /\ Quiescent
    /\ started = 2
    /\ Cardinality(AccountsOn("h1")) = 2
    /\ promCounter[<<"h1", "ok">>] >= 1
    /\ promCounter[<<"h1", "ko">>] >= 1
    /\ promCounter[<<"h1", "ok">>] + promCounter[<<"h1", "ko">>] = 4

\* ------------------------------------------------------------------ C17
\* The trust policies a tls.Config puts in force
SkipVerification(cfg) == cfg.set /\ cfg.InsecureSkipVerify
SuppliedRoot(cfg) == cfg.set /\ cfg.RootCAs # "nil"
SystemRoots(cfg) == ~cfg.InsecureSkipVerify /\ cfg.RootCAs = "nil"

\* C17: the tls.Config of every account puts exactly one of the three trust
\* policies in force: skipping verification when skip_tls_validation is set
\* (with or without a pem), the supplied root when only a pem is given,
\* the system roots when neither is; the dialer of an account is the TLS
\* one, carrying that tls.Config, exactly when its scheme is imaps, and
\* every dial of every scrape goes through it: no step changes the dialer
\* of an account.
C17_OneTrustPolicyOneDialer ==
    /\ [](\A a \in DOMAIN imapMetrics :
            LET i == imapMetrics[a]
                cfg == i.account.TLSConfig
                skip == i.raw.SkipTLSValidation
                pem == i.raw.Pem
            IN /\ \/ SkipVerification(cfg) /\ ~SuppliedRoot(cfg) /\ ~SystemRoots(cfg)
                  \/ ~SkipVerification(cfg) /\ SuppliedRoot(cfg) /\ ~SystemRoots(cfg)
                  \/ ~SkipVerification(cfg) /\ ~SuppliedRoot(cfg) /\ SystemRoots(cfg)
               /\ SkipVerification(cfg) <=> skip
               /\ SuppliedRoot(cfg) <=> (~skip /\ pem # "")
               /\ SuppliedRoot(cfg) => cfg.RootCAs = pem
               /\ SystemRoots(cfg) <=> (~skip /\ pem = "")
               /\ i.dialer.kind = (IF i.raw.scheme = "imaps" THEN "tls" ELSE "plain")
               /\ i.dialer.kind = "tls" => i.dialer.tlsConfig = cfg
               /\ \A s \in Scrapes :
                    /\ sess[s][a].pc \notin {"idle", "dial"} =>
                         sess[s][a].dialedWith = i.dialer
                    /\ sess[s][a].dialedWith.kind \in {"none", i.dialer.kind})
    /\ [][\A a \in DOMAIN imapMetrics :
            imapMetrics'[a].dialer = imapMetrics[a].dialer]_vars

\* In the second scrape, an imaps account with both skip_tls_validation and
\* a pem has dialed with verification skipped and no root of its own, and
\* an imap account has dialed in plain text
C17_Witness ==
    /\ started = 2
    /\ \E s \in Scrapes : \E a, b \in DOMAIN imapMetrics :
          /\ imapMetrics[a].raw.SkipTLSValidation /\ imapMetrics[a].raw.Pem # ""
          /\ sess[s][a].dialedWith.kind = "tls"
          /\ sess[s][a].dialedWith.tlsConfig.InsecureSkipVerify
          /\ sess[s][a].dialedWith.tlsConfig.RootCAs = "nil"
          /\ imapMetrics[b].raw.scheme = "imap"
          /\ sess[s][b].dialedWith.kind = "plain"

\* ------------------------------------------------------------------ C18
\* C18: no two samples sent on the metric channel in one scrape have the
\* same family and the same label values (the accounts of every
\* configuration have distinct (host, user) pairs and the server's mailbox
\* names are distinct); in particular at most one fetch_total sample is
\* sent per (host, result), also when two accounts share the host.
C18_NoDuplicateSample ==
    \A s \in Scrapes : \A a, b \in DOMAIN imapMetrics :
        \A k \in DOMAIN sess[s][a].sent : \A l \in DOMAIN sess[s][b].sent :
            (<<a, k>> # <<b, l>>) =>
                SentKeys(sess[s][a])[k] # SentKeys(sess[s][b])[l]

\* ------------------------------------------------------------------ C19
\* The sessions of a scrape whose error Collect has received
Delivered(s) == {a \in DOMAIN imapMetrics : sess[s][a].pc = "done"}

\* C19: the three signals of a session's outcome agree: its mailbox_ok
\* sample is 1 exactly when its increment went to (host, ok) and the error
\* it hands to Collect is nil (nothing logged), and 0 exactly when the
\* increment went to (host, ko) and the error is not nil (logged once);
\* the samples, the mailbox_ok sample and the increment are all made before
\* the error is handed over, and the hand-over changes none of them.
C19_SignalsAgree ==
    /\ [](\A s \in Scrapes :
            /\ \A a \in DOMAIN imapMetrics :
                 LET st == sess[s][a]
                     i == imapMetrics[a]
                 IN Reported(st) =>
                      /\ Len(OkSamples(st)) = 1
                      /\ OkSamples(st)[1].labels = <<i.host, i.user>>
                      /\ OkSamples(st)[1].value \in {0, 1}
                      /\ Len(st.incs) = 1
                      /\ st.incs[1] \in {{<<i.host, "ok", 1>>}, {<<i.host, "ko", 1>>}}
                      /\ OkSamples(st)[1].value = 1 <=> st.incs[1] = {<<i.host, "ok", 1>>}
                      /\ OkSamples(st)[1].value = 1 <=> st.err = "nil"
                      /\ OkSamples(st)[1].value = 0 <=> st.incs[1] = {<<i.host, "ko", 1>>}
                      /\ OkSamples(st)[1].value = 0 <=> st.err # "nil"
            /\ scrape[s] # "idle" =>
                 /\ received[s] = Cardinality(Delivered(s))
                 /\ logged[s] = Cardinality({a \in Delivered(s) : sess[s][a].err # "nil"}))
    /\ [][\A s \in Scrapes : \A a \in DOMAIN imapMetrics :
            LET st == sess[s][a]
                nx == sess'[s][a]
            IN /\ (nx.pc = "done" /\ st.pc # "done") =>
                    /\ st.pc = "send"
                    /\ nx.sent = st.sent /\ nx.incs = st.incs /\ nx.err = st.err
                    /\ promCounter' = promCounter
                    /\ logged'[s] = logged[s] + (IF st.err = "nil" THEN 0 ELSE 1)
               /\ (st.pc = "done" /\ nx.pc = "done") => nx = st]_vars

\* A scrape of two accounts has returned, one session with mailbox_ok 1,
\* the ok key and a nil error, the other with mailbox_ok 0, the ko key and
\* an error that was logged
C19_Witness ==
    \E s \in Scrapes : \E a, b \in DOMAIN imapMetrics :
        /\ scrape[s] = "returned"
        /\ sess[s][a].pc = "done" /\ sess[s][a].err = "nil"
        /\ OkSamples(sess[s][a])[1].value = 1
        /\ sess[s][a].incs = << {<<imapMetrics[a].host, "ok", 1>>} >>
        /\ sess[s][b].pc = "done" /\ sess[s][b].err # "nil"
        /\ OkSamples(sess[s][b])[1].value = 0
        /\ sess[s][b].incs = << {<<imapMetrics[b].host, "ko", 1>>} >>
        /\ logged[s] = 1

====
